---- MODULE Spec2Model ----
(***************************************************************************)
(* The quantile aggregate of src/src/quantile.c: the eight transition      *)
(* functions quantile_append_<domain>[_array] and the eight final          *)
(* functions quantile_<domain>[_array], as the host calls them for one     *)
(* aggregate over its groups.                                              *)
(*                                                                         *)
(* Abstractions, stated once:                                              *)
(*  - observations are integers 1..MaxVal, values every one of the four    *)
(*    domains represents exactly and orders alike; a content 0 stands for  *)
(*    any bit pattern that was never appended (uninitialised or foreign    *)
(*    memory);                                                             *)
(*  - a probability is an exact fraction <<num, den>>, den > 0, so that    *)
(*    next * p and ceil() are exact; IEEE rounding and NaN are outside     *)
(*    the model;                                                           *)
(*  - the buffer is the sequence of its initialised entries 0..next-1      *)
(*    together with its capacity nelements; SLICE_SIZE is scaled down so   *)
(*    that slab boundaries are crossed within MaxCalls calls.              *)
(***************************************************************************)
EXTENDS Integers, Sequences, FiniteSets, TLC

MaxVal == 2
MaxCalls == 4
SLICE_SIZE == 2

Groups == {1, 2}

\* The groups the specification Spec follows.
MainGroups == {1}

Domains == {"double", "int32", "int64", "numeric"}
Values == 1..MaxVal

\* What a read outside the initialised entries may deliver.
AnyContent == Values \cup {0}

\* Probabilities, as fractions: below 0, 0, inside (0,1), 1, above 1.
Probs == {<<-1, 2>>, <<0, 1>>, <<1, 3>>, <<1, 2>>, <<3, 4>>, <<1, 1>>, <<3, 2>>}

\* float8[] arguments: ndims and the items in storage order.  A singleton,
\* sorted and unsorted lists, duplicates, out-of-range entries and a
\* two-dimensional array.
ArrayArgs ==
    {[ndims |-> 1, items |-> <<<<1, 2>>>>],
     [ndims |-> 1, items |-> <<<<1, 3>>, <<1, 2>>, <<3, 4>>>>],
     [ndims |-> 1, items |-> <<<<3, 4>>, <<1, 2>>>>],
     [ndims |-> 1, items |-> <<<<1, 2>>, <<1, 2>>>>],
     [ndims |-> 1, items |-> <<<<1, 1>>, <<0, 1>>, <<1, 1>>>>],
     [ndims |-> 1, items |-> <<<<3, 2>>, <<1, 3>>, <<-1, 2>>>>],
     [ndims |-> 2, items |-> <<<<1, 2>>, <<1, 2>>>>]}

\* The observation argument (argument 1): NULL or a value.
Observations == {[isnull |-> TRUE, v |-> 0]} \cup {[isnull |-> FALSE, v |-> x] : x \in Values}

VARIABLES
    domain,     \* the value domain of the aggregate being run
    isArray,    \* whether it is the array (multi-quantile) aggregate
    st,         \* per group: the transition state the host passes back
    result,     \* per group: what the final function returned
    hist,       \* per group: the observations of the append calls, in call order
    req0,       \* per group: the probabilities of the call that created the state
    reqDiffered,\* per group: a later call carried other probabilities than stored
    lastCall,   \* how the most recent call was made: "none", "ok", "nocontext"
    aborted     \* elog(ERROR) was raised: the aggregation is over

vars == <<domain, isArray, st, result, hist, req0, reqDiffered, lastCall, aborted>>

----------------------------------------------------------------------------
\* Fractions.
Gt0(p) == p[1] > 0
Lt1(p) == p[1] < p[2]
Le0(p) == p[1] <= 0
Ge1(p) == p[1] >= p[2]

\* ceil(n * p) for the fraction p, as libm's ceil on the exact product.
ceil(n, p) == -((-(n * p[1])) \div p[2])

----------------------------------------------------------------------------
\* The transition state: a NULL argument 0, or a palloc'ed struct.
NullState ==
    [alloc |-> FALSE, nquantiles |-> 0, nelements |-> 0, next |-> 0,
     quantiles |-> <<>>, elements |-> <<>>]

\* Variant of GET_AGG_CONTEXT that lets every call through.
GET_AGG_CONTEXT_Unchecked(inctx) == TRUE

\* AggCheckCallContext as the macros use it: the call goes on iff it holds.
GET_AGG_CONTEXT(inctx) == inctx

CHECK_AGG_CONTEXT(inctx) == inctx

\* The first branch of the append functions: a fresh struct with one slab.
NewState(quantiles, nquantiles) ==
    [alloc |-> TRUE, nquantiles |-> nquantiles, nelements |-> SLICE_SIZE, next |-> 0,
     quantiles |-> quantiles, elements |-> <<>>]

\* Variant of AddElement without the PG_ARGISNULL(1) test.
AddElementCountingNull(data, obs) ==
    LET grown == IF data.next > data.nelements - 1
                 THEN [data EXCEPT !.nelements = data.nelements + SLICE_SIZE]
                 ELSE data
    IN [grown EXCEPT !.elements = Append(grown.elements, obs.v),
                     !.next = grown.next + 1]

\* Variant of AddElement that allocates a fresh buffer instead of repalloc.
AddElementFreshOnGrow(data, obs) ==
    IF obs.isnull THEN data
    ELSE LET grown == IF data.next > data.nelements - 1
                      THEN [data EXCEPT !.nelements = data.nelements + SLICE_SIZE,
                                        !.elements = [i \in 1..data.next |-> 0]]
                      ELSE data
         IN [grown EXCEPT !.elements = Append(grown.elements, obs.v),
                          !.next = grown.next + 1]

\* Variant of AddElement that grows one element too late.
AddElementLateGrow(data, obs) ==
    IF obs.isnull THEN data
    ELSE LET grown == IF data.next > data.nelements
                      THEN [data EXCEPT !.nelements = data.nelements + SLICE_SIZE]
                      ELSE data
         IN [grown EXCEPT !.elements = Append(grown.elements, obs.v),
                          !.next = grown.next + 1]

\* Variant of AddElement that doubles the buffer instead of adding a slab.
AddElementDoubling(data, obs) ==
    IF obs.isnull THEN data
    ELSE LET grown == IF data.next > data.nelements - 1
                      THEN [data EXCEPT !.nelements = data.nelements + data.nelements]
                      ELSE data
         IN [grown EXCEPT !.elements = Append(grown.elements, obs.v),
                          !.next = grown.next + 1]

\* "ignore NULL values": grow by one slab when full, store, advance next.
AddElement(data, obs) ==
    IF obs.isnull THEN data
    ELSE LET grown == IF data.next > data.nelements - 1
                      THEN [data EXCEPT !.nelements = data.nelements + SLICE_SIZE]
                      ELSE data
         IN [grown EXCEPT !.elements = Append(grown.elements, obs.v),
                          !.next = grown.next + 1]

\* Reading the float8[] argument.
array_to_double(v) ==
    IF v.ndims # 1 THEN [err |-> TRUE, len |-> 0, result |-> <<>>]
    ELSE IF Len(v.items) = 0 THEN [err |-> FALSE, len |-> 0, result |-> <<>>]
    ELSE [err |-> FALSE, len |-> Len(v.items),
          result |-> [i \in 1..Len(v.items) |-> v.items[i]]]

\* Variant of AppendScalar that stores argument 2 on every call.
AppendScalarReparse(data, obs, p) ==
    [err |-> FALSE,
     data |-> AddElement(IF ~data.alloc THEN NewState(<<p>>, 1)
                         ELSE [data EXCEPT !.quantiles = <<p>>], obs)]

\* The scalar append functions: the state is created from argument 2 only
\* when argument 0 is NULL.
AppendScalar(data, obs, p) ==
    [err |-> FALSE,
     data |-> AddElement(IF ~data.alloc THEN NewState(<<p>>, 1) ELSE data, obs)]

\* The array append functions.
AppendArray(data, obs, v) ==
    IF ~data.alloc
    THEN LET q == array_to_double(v)
         IN IF q.err THEN [err |-> TRUE, data |-> data]
            ELSE [err |-> FALSE, data |-> AddElement(NewState(q.result, q.len), obs)]
    ELSE [err |-> FALSE, data |-> AddElement(data, obs)]

quantile_append_double(data, obs, p) == AppendScalar(data, obs, p)
quantile_append_double_array(data, obs, v) == AppendArray(data, obs, v)
quantile_append_numeric(data, obs, p) == AppendScalar(data, obs, p)
quantile_append_numeric_array(data, obs, v) == AppendArray(data, obs, v)
quantile_append_int32(data, obs, p) == AppendScalar(data, obs, p)
quantile_append_int32_array(data, obs, v) == AppendArray(data, obs, v)
quantile_append_int64(data, obs, p) == AppendScalar(data, obs, p)
quantile_append_int64_array(data, obs, v) == AppendArray(data, obs, v)

\* The transition function of the aggregate (dom, arr).
AppendFn(dom, arr, data, obs, req) ==
    CASE dom = "double" /\ ~arr -> quantile_append_double(data, obs, req)
      [] dom = "double" /\ arr -> quantile_append_double_array(data, obs, req)
      [] dom = "numeric" /\ ~arr -> quantile_append_numeric(data, obs, req)
      [] dom = "numeric" /\ arr -> quantile_append_numeric_array(data, obs, req)
      [] dom = "int32" /\ ~arr -> quantile_append_int32(data, obs, req)
      [] dom = "int32" /\ arr -> quantile_append_int32_array(data, obs, req)
      [] dom = "int64" /\ ~arr -> quantile_append_int64(data, obs, req)
      [] dom = "int64" /\ arr -> quantile_append_int64_array(data, obs, req)

----------------------------------------------------------------------------
\* Comparators, used for qsort.
double_comparator(af, bf) == (IF af > bf THEN 1 ELSE 0) - (IF af < bf THEN 1 ELSE 0)

int32_comparator(af, bf) == (IF af > bf THEN 1 ELSE 0) - (IF af < bf THEN 1 ELSE 0)

int64_comparator(af, bf) == (IF af > bf THEN 1 ELSE 0) - (IF af < bf THEN 1 ELSE 0)

\* numeric_cmp of the two Numerics: -1, 0 or 1.
numeric_comparator(a, b) == IF a < b THEN -1 ELSE IF a > b THEN 1 ELSE 0

Compare(dom, a, b) ==
    CASE dom = "double" -> double_comparator(a, b)
      [] dom = "int32" -> int32_comparator(a, b)
      [] dom = "int64" -> int64_comparator(a, b)
      [] dom = "numeric" -> numeric_comparator(a, b)

\* qsort(elements, next, size, comparator): the entries 0..next-1 reordered so
\* that the comparator finds every entry <= the one after it.
RECURSIVE InsertOrdered(_, _, _)
InsertOrdered(dom, x, s) ==
    IF s = <<>> THEN <<x>>
    ELSE IF Compare(dom, x, Head(s)) <= 0 THEN <<x>> \o s
    ELSE <<Head(s)>> \o InsertOrdered(dom, x, Tail(s))

RECURSIVE qsort(_, _)
qsort(dom, s) ==
    IF s = <<>> THEN <<>> ELSE InsertOrdered(dom, Head(s), qsort(dom, Tail(s)))

----------------------------------------------------------------------------
\* What the final functions return: kind is "none" (not called yet), "null"
\* (PG_RETURN_NULL), "value" (one Datum), "array" or "crash"; vals are the
\* values returned and reads the indexes of elements[] that were read.
NoResult == [kind |-> "none", vals |-> <<>>, reads |-> <<>>]
NullResult == [kind |-> "null", vals |-> <<>>, reads |-> <<>>]

\* elements[idx]: an initialised entry, or whatever the memory holds.
Fetch(data, idx) ==
    IF idx \in 0..(data.next - 1) THEN {data.elements[idx + 1]} ELSE AnyContent

\* A read outside the allocation may also end the backend.
InAlloc(data, idx) == idx \in 0..(data.nelements - 1)

\* Sort, then return elements[idx].
ScalarFinal(dom, data, idx) ==
    LET sorted == [data EXCEPT !.elements = qsort(dom, data.elements)]
    IN {[data |-> sorted, res |-> [kind |-> "value", vals |-> <<v>>, reads |-> <<idx>>]] :
            v \in Fetch(sorted, idx)}
       \cup (IF InAlloc(sorted, idx) THEN {}
             ELSE {[data |-> sorted, res |-> [kind |-> "crash", vals |-> <<>>, reads |-> <<idx>>]]})

\* Variant of IdxDouble that forgets the "- 1".
IdxDoubleNoMinusOne(next, p) == IF Gt0(p) /\ Lt1(p) THEN ceil(next, p) ELSE 0

\* The index of quantile_double.
IdxDouble(next, p) == IF Gt0(p) /\ Lt1(p) THEN ceil(next, p) - 1 ELSE 0

\* Variant of IdxInt32 that tests >= 0 instead of > 0.
IdxInt32FromZero(next, p) == IF p[1] >= 0 THEN ceil(next, p) - 1 ELSE 0

\* The index of quantile_int32, quantile_int64 and quantile_numeric.
IdxInt32(next, p) == IF Gt0(p) THEN ceil(next, p) - 1 ELSE 0

IdxInt64(next, p) == IF Gt0(p) THEN ceil(next, p) - 1 ELSE 0

IdxNumeric(next, p) == IF Gt0(p) THEN ceil(next, p) - 1 ELSE 0

quantile_double(data) ==
    IF ~data.alloc THEN {[data |-> data, res |-> NullResult]}
    ELSE ScalarFinal("double", data, IdxDouble(data.next, data.quantiles[1]))

quantile_int32(data) ==
    IF ~data.alloc THEN {[data |-> data, res |-> NullResult]}
    ELSE ScalarFinal("int32", data, IdxInt32(data.next, data.quantiles[1]))

quantile_int64(data) ==
    IF ~data.alloc THEN {[data |-> data, res |-> NullResult]}
    ELSE ScalarFinal("int64", data, IdxInt64(data.next, data.quantiles[1]))

quantile_numeric(data) ==
    IF ~data.alloc THEN {[data |-> data, res |-> NullResult]}
    ELSE ScalarFinal("numeric", data, IdxNumeric(data.next, data.quantiles[1]))

\* Variant of ArrayIdx without the last branch (p >= 1).
ArrayIdxNoUpperClamp(next, p, idx) ==
    IF Gt0(p) /\ Lt1(p) THEN ceil(next, p) - 1
    ELSE IF Le0(p) THEN 0
    ELSE idx

\* One pass of the loop body of the array final functions: idx is a local
\* declared before the loop and keeps its value when no branch is taken.
ArrayIdx(next, p, idx) ==
    IF Gt0(p) /\ Lt1(p) THEN ceil(next, p) - 1
    ELSE IF Le0(p) THEN 0
    ELSE IF Ge1(p) THEN next - 1
    ELSE idx

\* The indexes read by for (i = 0; i < nquantiles; i++), idx starting at 0.
RECURSIVE ArrayIdxLoop(_, _, _, _, _)
ArrayIdxLoop(data, i, idx, nq, acc) ==
    IF ~(i < nq) THEN acc
    ELSE LET nidx == ArrayIdx(data.next, data.quantiles[i + 1], idx)
         IN ArrayIdxLoop(data, i + 1, nidx, nq, Append(acc, nidx))

\* double_to_array and its three copies: d[0..len-1] accumulated in order.
double_to_array(d, len) == [i \in 1..len |-> d[i]]

int32_to_array(d, len) == [i \in 1..len |-> d[i]]

int64_to_array(d, len) == [i \in 1..len |-> d[i]]

numeric_to_array(d, len) == [i \in 1..len |-> d[i]]

ToArray(dom, d, len) ==
    CASE dom = "double" -> double_to_array(d, len)
      [] dom = "int32" -> int32_to_array(d, len)
      [] dom = "int64" -> int64_to_array(d, len)
      [] dom = "numeric" -> numeric_to_array(d, len)

\* Sort, fill result[i] = elements[idx] for every quantile, return the array.
ArrayFinal(dom, data) ==
    LET sorted == [data EXCEPT !.elements = qsort(dom, data.elements)]
        idxs == ArrayIdxLoop(sorted, 0, 0, sorted.nquantiles, <<>>)
        n == Len(idxs)
    IN {[data |-> sorted,
         res |-> [kind |-> "array", vals |-> ToArray(dom, d, sorted.nquantiles), reads |-> idxs]] :
            d \in {f \in [1..n -> AnyContent] : \A i \in 1..n : f[i] \in Fetch(sorted, idxs[i])}}
       \cup (IF \A i \in 1..n : InAlloc(sorted, idxs[i]) THEN {}
             ELSE {[data |-> sorted, res |-> [kind |-> "crash", vals |-> <<>>, reads |-> idxs]]})

quantile_double_array(data) ==
    IF ~data.alloc THEN {[data |-> data, res |-> NullResult]} ELSE ArrayFinal("double", data)

quantile_int32_array(data) ==
    IF ~data.alloc THEN {[data |-> data, res |-> NullResult]} ELSE ArrayFinal("int32", data)

quantile_int64_array(data) ==
    IF ~data.alloc THEN {[data |-> data, res |-> NullResult]} ELSE ArrayFinal("int64", data)

quantile_numeric_array(data) ==
    IF ~data.alloc THEN {[data |-> data, res |-> NullResult]} ELSE ArrayFinal("numeric", data)

\* The final function of the aggregate (dom, arr): its possible outcomes.
FinalFn(dom, arr, data) ==
    CASE dom = "double" /\ ~arr -> quantile_double(data)
      [] dom = "double" /\ arr -> quantile_double_array(data)
      [] dom = "numeric" /\ ~arr -> quantile_numeric(data)
      [] dom = "numeric" /\ arr -> quantile_numeric_array(data)
      [] dom = "int32" /\ ~arr -> quantile_int32(data)
      [] dom = "int32" /\ arr -> quantile_int32_array(data)
      [] dom = "int64" /\ ~arr -> quantile_int64(data)
      [] dom = "int64" /\ arr -> quantile_int64_array(data)

----------------------------------------------------------------------------
\* The probabilities an argument 2 denotes, and the arguments the host may pass.
Denotes(arr, req) == IF arr THEN req.items ELSE <<req>>

RequestArgs(arr) == IF arr THEN ArrayArgs ELSE Probs

Init ==
    /\ domain \in Domains
    /\ isArray \in BOOLEAN
    /\ st = [g \in Groups |-> NullState]
    /\ result = [g \in Groups |-> NoResult]
    /\ hist = [g \in Groups |-> <<>>]
    /\ req0 = [g \in Groups |-> <<>>]
    /\ reqDiffered = [g \in Groups |-> FALSE]
    /\ lastCall = "none"
    /\ aborted = FALSE

\* One call of the transition function for group g.  The host calls it once
\* per row, before the final function, while the query has not failed.
\* At most maxCalls calls per group are followed, with the observation drawn
\* from obsSet and argument 2 from reqSet.
AppendWith(g, maxCalls, obsSet, reqSet) ==
    /\ ~aborted
    /\ result[g].kind = "none"
    /\ Len(hist[g]) < maxCalls
    /\ \E inctx \in BOOLEAN, obs \in obsSet, req \in reqSet :
         /\ lastCall' = IF inctx THEN "ok" ELSE "nocontext"
         /\ IF ~GET_AGG_CONTEXT(inctx)
            THEN /\ aborted' = TRUE
                 /\ UNCHANGED <<st, hist, req0, reqDiffered>>
            ELSE LET out == AppendFn(domain, isArray, st[g], obs, req)
                 IN IF out.err
                    THEN /\ aborted' = TRUE
                         /\ UNCHANGED <<st, hist, req0, reqDiffered>>
                    ELSE /\ aborted' = FALSE
                         /\ st' = [st EXCEPT ![g] = out.data]
                         /\ hist' = [hist EXCEPT ![g] = Append(@, obs)]
                         /\ req0' = [req0 EXCEPT ![g] =
                                        IF st[g].alloc THEN @ ELSE Denotes(isArray, req)]
                         /\ reqDiffered' = [reqDiffered EXCEPT ![g] =
                                        @ \/ (st[g].alloc /\ Denotes(isArray, req) # st[g].quantiles)]
    /\ UNCHANGED <<domain, isArray, result>>

AppendCall(g) == AppendWith(g, MaxCalls, Observations, RequestArgs(isArray))

\* The call of the final function for group g.
FinalCall(g) ==
    /\ ~aborted
    /\ result[g].kind = "none"
    /\ \E inctx \in BOOLEAN :
         /\ lastCall' = IF inctx THEN "ok" ELSE "nocontext"
         /\ IF ~CHECK_AGG_CONTEXT(inctx)
            THEN /\ aborted' = TRUE
                 /\ UNCHANGED <<st, result>>
            ELSE /\ aborted' = FALSE
                 /\ \E out \in FinalFn(domain, isArray, st[g]) :
                      /\ st' = [st EXCEPT ![g] = out.data]
                      /\ result' = [result EXCEPT ![g] = out.res]
    /\ UNCHANGED <<domain, isArray, hist, req0, reqDiffered>>

Next == \E g \in MainGroups : AppendCall(g) \/ FinalCall(g)

Spec == Init /\ [][Next]_vars

\* Two groups of one aggregate, their calls interleaved in any order: few
\* calls per group and two arguments 2 per aggregate.
GroupCalls == 2

GroupRequestArgs(arr) ==
    IF arr THEN {[ndims |-> 1, items |-> <<<<1, 3>>, <<1, 2>>, <<3, 4>>>>],
                 [ndims |-> 1, items |-> <<<<3, 2>>, <<1, 3>>, <<-1, 2>>>>]}
    ELSE {<<1, 2>>, <<3, 2>>}

GroupAppendCall(g) == AppendWith(g, GroupCalls, Observations, GroupRequestArgs(isArray))

NextGroups == \E g \in Groups : GroupAppendCall(g) \/ FinalCall(g)

SpecGroups == Init /\ [][NextGroups]_vars

\* One group followed over several slabs: more calls, one argument 2 per
\* aggregate.
GrowCalls == 6

GrowRequestArgs(arr) ==
    IF arr THEN {[ndims |-> 1, items |-> <<<<3, 4>>, <<1, 2>>>>]} ELSE {<<1, 2>>}

GrowAppendCall(g) == AppendWith(g, GrowCalls, Observations, GrowRequestArgs(isArray))

NextGrowth == \E g \in MainGroups : GrowAppendCall(g) \/ FinalCall(g)

SpecGrowth == Init /\ [][NextGrowth]_vars

----------------------------------------------------------------------------
\* Vocabulary of the properties, in terms of the calls made (hist, req0) and
\* of what was returned (result), not of the buffer.

\* The present observations of group g, in the order they were appended.
RECURSIVE PresentOf(_)
PresentOf(h) ==
    IF h = <<>> THEN <<>>
    ELSE IF Head(h).isnull THEN PresentOf(Tail(h))
    ELSE <<Head(h).v>> \o PresentOf(Tail(h))

Present(g) == PresentOf(hist[g])

\* The final function of group g has returned (a value, an array or nothing) or crashed.
Finalized(g) == result[g].kind # "none"

\* The final function returned values, one per stored probability.
Returned(g) == result[g].kind \in {"value", "array"}

\* v stands at zero-based index k of vals sorted in ascending order.
AtSortedIndex(vals, k, v) ==
    /\ \E i \in 1..Len(vals) : vals[i] = v
    /\ Cardinality({i \in 1..Len(vals) : vals[i] < v}) <= k
    /\ k < Cardinality({i \in 1..Len(vals) : vals[i] <= v})

\* k = ceil(n * p) - 1: k + 1 is the least integer not below n * p.
IsNearestRankIndex(n, p, k) ==
    /\ (k + 1) * p[2] >= n * p[1]
    /\ k * p[2] < n * p[1]

IsMinimum(vals, v) ==
    /\ \E i \in 1..Len(vals) : vals[i] = v
    /\ \A i \in 1..Len(vals) : v <= vals[i]

IsMaximum(vals, v) ==
    /\ \E i \in 1..Len(vals) : vals[i] = v
    /\ \A i \in 1..Len(vals) : v >= vals[i]

\* The value returned for the i-th stored probability, if one was returned.
ReturnedFor(g, i) == result[g].vals[i]

\* C1: in every finalize variant, for a group with n >= 1 accumulated values
\* and a requested probability p with 0 < p < 1, the value returned for p is
\* the element at zero-based index ceil(n*p) - 1 of the accumulated values
\* sorted in ascending order.
C1_NearestRank ==
    \A g \in Groups :
        (Finalized(g) /\ Len(Present(g)) >= 1) =>
            \A i \in 1..Len(req0[g]) :
                (Gt0(req0[g][i]) /\ Lt1(req0[g][i])) =>
                    /\ Returned(g)
                    /\ Len(result[g].vals) >= i
                    /\ \E k \in 0..(Len(Present(g)) - 1) :
                         /\ IsNearestRankIndex(Len(Present(g)), req0[g][i], k)
                         /\ AtSortedIndex(Present(g), k, ReturnedFor(g, i))

\* A group of three values, not all equal, finalized for a probability inside (0,1).
C1_Witness ==
    /\ Returned(1)
    /\ Len(Present(1)) = 3
    /\ \E i, j \in 1..3 : Present(1)[i] # Present(1)[j]
    /\ \E i \in 1..Len(req0[1]) : req0[1][i] = <<1, 2>>

\* C2: in every finalize variant, for a group with at least one accumulated
\* value and a requested probability p >= 1, the value returned for p is the
\* maximum of the accumulated values.
C2_MaximumAtOne ==
    \A g \in Groups :
        (Finalized(g) /\ Len(Present(g)) >= 1) =>
            \A i \in 1..Len(req0[g]) :
                Ge1(req0[g][i]) =>
                    /\ Returned(g)
                    /\ Len(result[g].vals) >= i
                    /\ IsMaximum(Present(g), ReturnedFor(g, i))

\* C3: in every finalize variant, for a group with at least one accumulated
\* value and a requested probability p <= 0, the value returned for p is the
\* minimum of the accumulated values.
C3_MinimumAtZero ==
    \A g \in Groups :
        (Finalized(g) /\ Len(Present(g)) >= 1) =>
            \A i \in 1..Len(req0[g]) :
                Le0(req0[g][i]) =>
                    /\ Returned(g)
                    /\ Len(result[g].vals) >= i
                    /\ IsMinimum(Present(g), ReturnedFor(g, i))

\* A group of at least two values, not all equal, finalized for a probability <= 0.
C3_Witness ==
    /\ Returned(1)
    /\ Len(Present(1)) >= 2
    /\ \E i, j \in 1..Len(Present(1)) : Present(1)[i] # Present(1)[j]
    /\ \E i \in 1..Len(req0[1]) : Le0(req0[1][i])

\* C4: the final function of a group that accumulated no observation returns
\* "no result" and reads no element at index -1 or at an index >= count,
\* whether no append call was made or every append call carried a missing
\* observation.
C4_EmptyGroupNoResult ==
    \A g \in Groups :
        (Finalized(g) /\ Len(Present(g)) = 0) =>
            /\ result[g].kind = "null"
            /\ \A i \in 1..Len(result[g].reads) :
                 result[g].reads[i] \in 0..(Len(Present(g)) - 1)

\* C5: in every array finalize variant, for a group with at least one
\* accumulated value, the result has as many entries as the probability list
\* stored at creation and entry i is the nearest-rank value for the i-th
\* probability by itself, in the order of the list as supplied.
C5_ArrayAlignment ==
    \A g \in Groups :
        (isArray /\ Finalized(g) /\ Len(Present(g)) >= 1) =>
            /\ result[g].kind = "array"
            /\ Len(result[g].vals) = Len(req0[g])
            /\ \A i \in 1..Len(req0[g]) :
                 LET p == req0[g][i]
                     v == ReturnedFor(g, i)
                 IN IF Le0(p) THEN IsMinimum(Present(g), v)
                    ELSE IF Ge1(p) THEN IsMaximum(Present(g), v)
                    ELSE \E k \in 0..(Len(Present(g)) - 1) :
                            /\ IsNearestRankIndex(Len(Present(g)), p, k)
                            /\ AtSortedIndex(Present(g), k, v)

\* An array aggregate finalized over values not all equal for the unsorted,
\* out-of-range list <<3/2, 1/3, -1/2>>.
C5_Witness ==
    /\ isArray
    /\ result[1].kind = "array"
    /\ req0[1] = <<<<3, 2>>, <<1, 3>>, <<-1, 2>>>>
    /\ Len(Present(1)) >= 3
    /\ \E i, j \in 1..Len(Present(1)) : Present(1)[i] # Present(1)[j]

----------------------------------------------------------------------------
\* Running the transition function over a sequence of observations, every
\* call carrying the argument req, from the state data.
RECURSIVE Replay(_, _, _, _, _)
Replay(dom, arr, data, obsSeq, req) ==
    IF obsSeq = <<>> THEN data
    ELSE Replay(dom, arr, AppendFn(dom, arr, data, Head(obsSeq), req).data, Tail(obsSeq), req)

\* The observations of h that are present, as observations.
RECURSIVE WithoutMissing(_)
WithoutMissing(h) ==
    IF h = <<>> THEN <<>>
    ELSE IF Head(h).isnull THEN WithoutMissing(Tail(h))
    ELSE <<Head(h)>> \o WithoutMissing(Tail(h))

\* An argument 2 that denotes the probabilities qs.
ArgFor(arr, qs) == IF arr THEN [ndims |-> 1, items |-> qs] ELSE qs[1]

\* The accumulated sequence of a state: entries 0..count-1, and count.
Accumulated(data) == [entries |-> SubSeq(data.elements, 1, data.next), count |-> data.next]

\* C6: for any sequence of append calls on one group, the accumulated
\* sequence (entries 0..count-1 and count) is the same as after the sequence
\* with every call whose observation is missing deleted, wherever the missing
\* observations occur, the first call included.
C6_MissingInsensitive ==
    \A g \in Groups :
        (~Finalized(g) /\ hist[g] # <<>>) =>
            Accumulated(st[g]) =
                Accumulated(Replay(domain, isArray, NullState,
                                   WithoutMissing(hist[g]), ArgFor(isArray, req0[g])))

\* Missing observations first, in between and last, around two present ones.
C6_Witness ==
    /\ ~Finalized(1)
    /\ Len(hist[1]) = 4
    /\ hist[1][1].isnull /\ ~hist[1][2].isnull /\ hist[1][3].isnull /\ ~hist[1][4].isnull
    /\ st[1].next = 2

\* C7: after any sequence of append calls on one group, also across slab
\* boundaries, count is the number of calls whose observation was present and
\* entries 0..count-1 are the present observations in the order they were
\* appended.
C7_GrowthKeepsValues ==
    \A g \in Groups :
        (~Finalized(g) /\ st[g].alloc) =>
            /\ st[g].next = Len(Present(g))
            /\ Len(st[g].elements) >= st[g].next
            /\ SubSeq(st[g].elements, 1, st[g].next) = Present(g)

\* The buffer was reallocated: more entries than one slab holds, not all equal.
C7_Witness ==
    /\ ~Finalized(1)
    /\ st[1].next > SLICE_SIZE
    /\ st[1].nelements > SLICE_SIZE
    /\ \E i, j \in 1..st[1].next : st[1].elements[i] # st[1].elements[j]

\* C8: the probabilities of a group are those of the append call that creates
\* the group state; an append call on an existing state leaves them and
\* their number unchanged, whatever its own argument, and the final function
\* uses the stored ones.
C8_Step ==
    \A g \in Groups :
        /\ st[g].alloc =>
             /\ st'[g].alloc
             /\ st'[g].quantiles = st[g].quantiles
             /\ st'[g].nquantiles = st[g].nquantiles
        /\ st'[g].alloc =>
             /\ st'[g].quantiles = req0'[g]
             /\ st'[g].nquantiles = Len(req0'[g])
        /\ (~Finalized(g) /\ Finalized(g)' /\ st[g].alloc) =>
             /\ Len(result'[g].reads) = Len(req0[g])
             /\ \E out \in FinalFn(domain, isArray,
                                    Replay(domain, isArray, NullState, hist[g],
                                           ArgFor(isArray, req0[g]))) :
                  out.res = result'[g]

C8_RequestFixed == [][C8_Step]_vars

\* A later call carried other probabilities than the stored ones, and the
\* final function has returned.
C8_Witness ==
    /\ reqDiffered[1]
    /\ Returned(1)
    /\ Len(Present(1)) >= 2

\* The orders in which the present observations of h can arrive.
Orders(h) ==
    LET w == WithoutMissing(h)
        n == Len(w)
    IN {[i \in 1..n |-> w[f[i]]] : f \in Permutations(1..n)}

\* C9: for a fixed request and a fixed multiset of present observations with
\* at least one element, the final function returns the same result for
\* every order in which the observations are appended.
C9_OrderInsensitive ==
    \A g \in Groups :
        (Finalized(g) /\ Len(Present(g)) >= 1) =>
            \A h \in Orders(hist[g]) :
                \A out \in FinalFn(domain, isArray,
                                   Replay(domain, isArray, NullState, h, ArgFor(isArray, req0[g]))) :
                    out.res = result[g]

\* C10: an append or final call made outside an aggregation context fails
\* with an error before any group state is created, read or modified: no
\* accumulator is allocated, no value appended, nothing sorted, no result
\* returned.
C10_Step ==
    lastCall' = "nocontext" =>
        /\ aborted'
        /\ st' = st
        /\ result' = result
        /\ hist' = hist
        /\ req0' = req0

C10_NoContextNoEffect == [][C10_Step]_vars

\* A call outside an aggregation context on a group that holds values.
C10_Witness ==
    /\ lastCall = "nocontext"
    /\ aborted
    /\ st[1].alloc
    /\ st[1].next >= 2
    /\ ~Finalized(1)

----------------------------------------------------------------------------
\* What the calls of group g return when they are run alone, from a NULL
\* state, every call carrying the probabilities of the creating call.
Alone(dom, g) ==
    FinalFn(dom, isArray,
            Replay(dom, isArray, NullState, hist[g], ArgFor(isArray, req0[g])))

\* A step is a call on one group: every other group keeps its values, count,
\* capacity, request and result.
C11_Frame ==
    \E g \in Groups :
        \A h \in Groups \ {g} :
            /\ st'[h] = st[h]
            /\ result'[h] = result[h]
            /\ hist'[h] = hist[h]
            /\ req0'[h] = req0[h]

\* The result of a final call is the result of that group's calls run alone.
C11_AsAlone ==
    \A g \in Groups :
        (~Finalized(g) /\ Finalized(g)') =>
            \A out \in Alone(domain, g) : out.res = result'[g]

\* C11: groups are isolated: a call on one group leaves the values, count,
\* capacity and request of every other group unchanged, so for any
\* interleaving of the calls of two groups each group's final result equals
\* the result of running that group's calls alone.
C11_GroupsIsolated == [][C11_Frame /\ C11_AsAlone]_vars

\* The frame part of C11 by itself.
C11_FrameOnly == [][C11_Frame]_vars

\* C12: in every reachable state of a group's accumulator 0 <= count <=
\* capacity, and capacity never decreases across an append or final call.
C12_Step ==
    \A g \in Groups :
        /\ st'[g].alloc =>
             /\ 0 <= st'[g].next
             /\ st'[g].next <= st'[g].nelements
        /\ st[g].alloc =>
             /\ st'[g].alloc
             /\ st'[g].nelements >= st[g].nelements

C12_CountWithinCapacity == [][C12_Step]_vars

\* A full buffer of two slabs, after the final call.
C12_Witness ==
    /\ Finalized(1)
    /\ st[1].next = st[1].nelements
    /\ st[1].nelements = SLICE_SIZE + SLICE_SIZE

\* The step appends a present observation to group g.
AppendsPresent(g) ==
    /\ Len(hist'[g]) = Len(hist[g]) + 1
    /\ ~hist'[g][Len(hist'[g])].isnull

\* C13: the accumulator is created with a capacity of one slab; the append of
\* a present value adds exactly one slab iff count equals capacity before the
\* call, and every other call leaves the capacity unchanged; the capacity is
\* always a positive multiple of the slab size, never doubled.
C13_Step ==
    \A g \in Groups :
        /\ (~st[g].alloc /\ st'[g].alloc) => st'[g].nelements = SLICE_SIZE
        /\ (st[g].alloc /\ AppendsPresent(g) /\ st[g].next = st[g].nelements) =>
             st'[g].nelements = st[g].nelements + SLICE_SIZE
        /\ (st[g].alloc /\ ~(AppendsPresent(g) /\ st[g].next = st[g].nelements)) =>
             st'[g].nelements = st[g].nelements
        /\ st'[g].alloc =>
             /\ st'[g].nelements > 0
             /\ st'[g].nelements % SLICE_SIZE = 0

C13_GrowsBySlab == [][C13_Step]_vars

\* The buffer has grown twice, by one slab each time.
C13_Witness ==
    /\ st[1].nelements = SLICE_SIZE + SLICE_SIZE + SLICE_SIZE
    /\ st[1].next > SLICE_SIZE + SLICE_SIZE

\* C14: in every finalize variant, for a group with count >= 1 and every
\* stored probability (p < 0 and p > 1 included), the index at which the
\* sorted buffer is read lies in 0..count-1, so that the value returned is
\* one of the accumulated values.
C14_IndexInRange ==
    \A g \in Groups :
        (Finalized(g) /\ Len(Present(g)) >= 1) =>
            /\ Returned(g)
            /\ Len(result[g].reads) = Len(req0[g])
            /\ \A i \in 1..Len(result[g].reads) :
                 result[g].reads[i] \in 0..(Len(Present(g)) - 1)
            /\ \A i \in 1..Len(result[g].vals) :
                 \E j \in 1..Len(Present(g)) : result[g].vals[i] = Present(g)[j]

\* C15: the four value domains follow the same protocol: for the same
\* sequence of append calls and the same probability, the scalar final
\* functions of the double, int32, int64 and numeric variants select the same
\* index of the sorted sequence and return the same value; likewise the four
\* array final functions.
C15_DomainsAgree ==
    \A g \in Groups :
        (Finalized(g) /\ Len(Present(g)) >= 1) =>
            \A dom \in Domains :
                \A out \in Alone(dom, g) :
                    /\ out.res.reads = result[g].reads
                    /\ out.res.vals = result[g].vals

\* The array final functions by themselves.
C15_ArrayDomainsAgree ==
    \A g \in Groups :
        (isArray /\ Finalized(g) /\ Len(Present(g)) >= 1) =>
            \A dom \in Domains :
                \A out \in Alone(dom, g) :
                    /\ out.res.reads = result[g].reads
                    /\ out.res.vals = result[g].vals

====
